---- MODULE Spec2Model ----
(***************************************************************************)
(* State-machine model of bot.py: the per-user cart, the checkout          *)
(* conversation and the order log of the Telegram shop bot.                *)
(*                                                                         *)
(* Strings that the code takes apart (callback data, item keys, free text) *)
(* are sequences of one-character strings.  Python dicts are functions     *)
(* whose DOMAIN is the set of keys present.  Python lists and the item     *)
(* dicts are heap objects with an address, because the code shares them:   *)
(* user_data["order"]["cart"] is the very list user_data["cart"] names.    *)
(***************************************************************************)
EXTENDS Integers, Sequences, FiniteSets, TLC

VARIABLES
    user_data,      \* [user -> dict]: context.user_data, keys "cart" and "order"
    heap,           \* [user -> [lists, dicts]]: the list and item-dict objects user_data reaches
    conversations,  \* [<<chat, user>> -> state]: ConversationHandler's state per key
    orders,         \* the lines of orders.jsonl, oldest first
    last,           \* the update handled last: handler, user, chat, data, exception,
                    \* messages sent, side effects in program order
    beginCart,      \* history: [user -> the cart's items when line 400 last created a draft]
    added,          \* history: [<<id, variant>> -> total qty added], used by SpecAdd only
    visible,        \* [chat -> the bot's messages the chat shows, oldest first, by kind],
                    \* followed by SpecView only
    recap,          \* history: [user -> the items listed by the recap ask_phone showed
                    \* last], while a dialogue of the user is in ASK_CONFIRM; kept for
                    \* the users in its domain, which are those of SpecRecap only
    button          \* the button a keyboard was built with: kind, product id, variant;
                    \* drawn by SpecTokens only

vars ==
    <<user_data, heap, conversations, orders, last, beginCart, added, visible, recap, button>>

----------------------------------------------------------------------------
(* Bounds of the model *)

\* largest total quantity a cart is allowed to hold
MaxQty == 2
\* number of lines written to orders.jsonl after which no update is handled
MaxOrders == 1
\* largest total quantity added per (id, variant) pair in SpecAdd
MaxSum == 3
\* number of visible messages of a chat after which no view is rendered in it
MaxMsgs == 3
\* largest length of a product id in SpecTokens
MaxIdLen == 2
\* largest length of a variant in SpecTokens
MaxVariantLen == 2

----------------------------------------------------------------------------
(* Program constants *)

ASK_NAME == 0
ASK_ADDRESS == 1
ASK_PHONE == 2
ASK_CONFIRM == 3
\* ConversationHandler.END; also the state of a key that is in no conversation
END == -1

\* Python's None, as a variant or as a handler's return value
None == <<"None">>

Users == {"u1", "u2"}
Chats == {"c1", "c2"}

\* products.json as loaded: ids are strings, prices are in cents, product
\* "3" has sizes, product "1" has an image ("" is no image).
PRODUCTS ==
    << [id |-> <<"1">>, name |-> "Mug",     price |-> 950,  variants |-> <<>>,
        image |-> "mug.jpg"],
       [id |-> <<"3">>, name |-> "T-shirt", price |-> 1990, variants |-> << <<"M">> >>,
        image |-> ""] >>

Range(s) == {s[i] : i \in 1..Len(s)}

\* PRODUCT_INDEX: the ids of the catalog
PRODUCT_INDEX == {PRODUCTS[i].id : i \in 1..Len(PRODUCTS)}

\* PRODUCT_INDEX.get(str(pid)), for a pid the index holds; "not prod" is
\* pid \notin PRODUCT_INDEX
product_by_id(pid) == PRODUCTS[CHOOSE i \in 1..Len(PRODUCTS) : PRODUCTS[i].id = pid]

----------------------------------------------------------------------------
(* Strings: str.startswith, str.split(sep, n), str.strip, \w *)

WordChars ==
    {"0","1","2","3","4","5","6","7","8","9","_",
     "a","b","c","d","e","f","g","h","i","j","k","l","m",
     "n","o","p","q","r","s","t","u","v","w","x","y","z",
     "A","B","C","D","E","F","G","H","I","J","K","L","M",
     "N","O","P","Q","R","S","T","U","V","W","X","Y","Z"}

IsWord(s) == Len(s) > 0 /\ \A i \in 1..Len(s) : s[i] \in WordChars

StartsWith(s, p) == Len(s) >= Len(p) /\ SubSeq(s, 1, Len(p)) = p

\* index of the first "_" at or after position from (0 when there is none)
FirstUnderscore(s, from) ==
    IF \E i \in from..Len(s) : s[i] = "_"
    THEN CHOOSE i \in from..Len(s) : s[i] = "_" /\ \A j \in from..(i-1) : s[j] # "_"
    ELSE 0

\* data.split("_", 1)[1]
SplitOnce(s) == SubSeq(s, FirstUnderscore(s, 1) + 1, Len(s))

\* _, pid, variant = data.split("_", 2)
SplitTwice(s) ==
    LET i == FirstUnderscore(s, 1)
        j == FirstUnderscore(s, i + 1)
    IN  [pid |-> SubSeq(s, i + 1, j - 1), variant |-> SubSeq(s, j + 1, Len(s))]

RECURSIVE LStrip(_)
LStrip(s) == IF s # <<>> /\ s[1] = " " THEN LStrip(Tail(s)) ELSE s

RECURSIVE RStrip(_)
RStrip(s) == IF s # <<>> /\ s[Len(s)] = " " THEN RStrip(SubSeq(s, 1, Len(s) - 1)) ELSE s

\* update.message.text.strip()
Strip(s) == RStrip(LStrip(s))

----------------------------------------------------------------------------
(* Callback data of the buttons the bot builds, and a few stale or forged ones *)

T_shop      == <<"s","h","o","p">>
T_cart      == <<"c","a","r","t">>
T_clearcart == <<"c","l","e","a","r","c","a","r","t">>
T_checkout  == <<"c","h","e","c","k","o","u","t">>
T_confirm   == <<"c","o","n","f","i","r","m","_","o","r","d","e","r">>
T_cancel    == <<"c","a","n","c","e","l","_","o","r","d","e","r">>
P_prod      == <<"p","r","o","d","_">>
P_add       == <<"a","d","d","_">>
P_choose    == <<"c","h","o","o","s","e","_">>
P_rm        == <<"r","m","_">>

\* f"{pid}::{variant or ''}"
item_key(pid, variant) == pid \o <<":", ":">> \o (IF variant = None THEN <<>> ELSE variant)

\* every key a cart item of this catalog can have
Keys == {item_key(<<"1">>, None), item_key(<<"3">>, <<"M">>)}

Tokens ==
    {T_shop, T_cart, T_clearcart, T_checkout, T_confirm, T_cancel}
    \cup {P_prod \o pid : pid \in {<<"3">>, <<"9">>}}
    \cup {P_add \o pid : pid \in {<<"1">>, <<"3">>}}
    \cup {P_choose \o <<"3">> \o <<"_">> \o v : v \in {<<"M">>, <<"X","L">>}}
    \cup {P_choose \o <<"9">> \o <<"_">> \o <<"M">>}
    \cup {P_rm \o k : k \in Keys}

\* the buttons pressed in Spec: those that change the cart or drive the
\* checkout, and one that only browses
ShopTokens == Tokens \ ({T_cart} \cup {P_prod \o pid : pid \in {<<"3">>, <<"9">>}})

\* a smaller choice of buttons that still reaches every handler: browse,
\* add the mug, choose a size the T-shirt does not have, remove the mug,
\* check out, confirm, cancel
BotTokens ==
    {T_shop, P_add \o <<"1">>, P_choose \o <<"3">> \o <<"_">> \o <<"X","L">>,
     P_rm \o item_key(<<"1">>, None), T_checkout, T_confirm, T_cancel}

\* free text a user types
Texts == { <<" ", "A", " ">> }

----------------------------------------------------------------------------
(* The dispatcher: handlers in the order main() adds them, first match wins *)

\* r"^add_\w+$"
MatchAdd(t) == StartsWith(t, P_add) /\ IsWord(SubSeq(t, Len(P_add) + 1, Len(t)))

\* r"^choose_\w+_.+$"
MatchChoose(t) ==
    /\ StartsWith(t, P_choose)
    /\ \E k \in (Len(P_choose) + 2)..(Len(t) - 1) :
          /\ t[k] = "_"
          /\ IsWord(SubSeq(t, Len(P_choose) + 1, k - 1))

\* r"^rm_.+"
MatchRm(t) == StartsWith(t, P_rm) /\ Len(t) > Len(P_rm)

\* r"^(shop|cart|clearcart|prod_\w+)$"
MatchNav(t) ==
    \/ t \in {T_shop, T_cart, T_clearcart}
    \/ StartsWith(t, P_prod) /\ IsWord(SubSeq(t, Len(P_prod) + 1, Len(t)))

\* The handler a button press with callback data t reaches when the
\* conversation of its (chat, user) key is in state st.  The conversation
\* is asked after add_/choose_/rm_ and before on_callback; in a state it
\* offers only that state's handlers (allow_reentry is off), and an
\* update it does not take goes on to the next handler.
RouteCallback(t, st) ==
    IF MatchAdd(t) THEN "add_to_cart_cb"
    ELSE IF MatchChoose(t) THEN "choose_variant_cb"
    ELSE IF MatchRm(t) THEN "remove_from_cart_cb"
    ELSE IF st = END /\ t = T_checkout THEN "start_checkout_cb"
    ELSE IF st = ASK_CONFIRM /\ t \in {T_confirm, T_cancel} THEN "confirm_or_cancel"
    ELSE IF MatchNav(t) THEN "on_callback"
    ELSE "none"

States == {END, ASK_NAME, ASK_ADDRESS, ASK_PHONE, ASK_CONFIRM}

\* RouteCallback over the buttons and states of the model
Routes == [t \in Tokens, st \in States |-> RouteCallback(t, st)]

\* The handler a plain text message (no command) reaches.
RouteText(st) ==
    IF st = ASK_NAME THEN "ask_name"
    ELSE IF st = ASK_ADDRESS THEN "ask_address"
    ELSE IF st = ASK_PHONE THEN "ask_phone"
    ELSE "none"

----------------------------------------------------------------------------
(* Dicts and the heap *)

\* d[k] = v
Put(d, k, v) == [x \in DOMAIN d \cup {k} |-> IF x = k THEN v ELSE d[x]]

\* d.pop(k, None)
Drop(d, k) == [x \in DOMAIN d \ {k} |-> d[x]]

\* One user's memory: the user_data dict and the objects it reaches.
\* lists[a] is the list object at address a, a sequence of item addresses;
\* dicts[a] is the item dict at address a.
Mem(u) == [ud |-> user_data[u], lists |-> heap[u].lists, dicts |-> heap[u].dicts]

\* the item dicts of the list at address a, by value
ItemsOf(m, a) == [i \in 1..Len(m.lists[a]) |-> m.dicts[m.lists[a][i]]]

\* the items of user_data["cart"], by value (empty when the key is absent)
CartItems(m) == IF "cart" \in DOMAIN m.ud THEN ItemsOf(m, m.ud.cart) ELSE <<>>

HasDraft(m) == "order" \in DOMAIN m.ud

\* the items of user_data["order"]["cart"], by value
DraftItems(m) ==
    IF HasDraft(m) /\ "cart" \in DOMAIN m.ud.order THEN ItemsOf(m, m.ud.order.cart) ELSE <<>>

RECURSIVE Dedup(_)
Dedup(s) ==
    IF s = <<>> THEN <<>>
    ELSE LET r == Dedup(SubSeq(s, 1, Len(s) - 1))
             x == s[Len(s)]
         IN  IF x \in Range(r) THEN r ELSE Append(r, x)

RECURSIVE Concat(_)
Concat(ss) == IF ss = <<>> THEN <<>> ELSE Head(ss) \o Concat(Tail(ss))

IndexOf(s, x) == CHOOSE i \in 1..Len(s) : s[i] = x

\* Garbage collection: the objects user_data no longer reaches are dropped
\* and the remaining ones renumbered in the order they are reached (the
\* cart's list first, then the draft's), so that two memories that differ
\* only in addresses are one state.
Normalize(m) ==
    LET roots == Dedup((IF "cart" \in DOMAIN m.ud THEN <<m.ud.cart>> ELSE <<>>)
                       \o (IF HasDraft(m) /\ "cart" \in DOMAIN m.ud.order
                           THEN <<m.ud.order.cart>> ELSE <<>>))
        live  == Dedup(Concat([k \in 1..Len(roots) |-> m.lists[roots[k]]]))
        ud1   == IF "cart" \in DOMAIN m.ud
                 THEN Put(m.ud, "cart", IndexOf(roots, m.ud.cart)) ELSE m.ud
        ud2   == IF HasDraft(m) /\ "cart" \in DOMAIN m.ud.order
                 THEN Put(ud1, "order",
                          Put(m.ud.order, "cart", IndexOf(roots, m.ud.order.cart)))
                 ELSE ud1
    IN  [ud    |-> ud2,
         lists |-> [k \in 1..Len(roots) |->
                      [j \in 1..Len(m.lists[roots[k]]) |-> IndexOf(live, m.lists[roots[k]][j])]],
         dicts |-> [k \in 1..Len(live) |-> m.dicts[live[k]]]]

----------------------------------------------------------------------------
(* Cart utilities *)

\* ensure_cart: creates the list on first use; the cart is m.ud.cart afterwards
ensure_cart(m) ==
    IF "cart" \in DOMAIN m.ud THEN m
    ELSE [m EXCEPT !.lists = Append(@, <<>>),
                   !.ud = Put(@, "cart", Len(m.lists) + 1)]

\* sum(price * qty), in cents
RECURSIVE SumItems(_)
SumItems(items) ==
    IF items = <<>> THEN 0
    ELSE items[1].price * items[1].qty + SumItems(Tail(items))

get_cart_total(m, a) == SumItems(ItemsOf(m, a))

\* add_item_to_cart without the search for the key: every call appends
add_item_to_cart_always_appends(m0, product, variant, qty) ==
    LET m == ensure_cart(m0)
    IN  [m EXCEPT !.dicts = Append(@, [key |-> item_key(product.id, variant), id |-> product.id,
                                        name |-> product.name, price |-> product.price,
                                        variant |-> variant, qty |-> qty]),
                  !.lists[m.ud.cart] = Append(@, Len(m.dicts) + 1)]

\* add_item_to_cart: the first item with the key gets qty more, in place;
\* without one a new item dict is appended to the cart's list, in place
add_item_to_cart(m0, product, variant, qty) ==
    LET m    == ensure_cart(m0)
        cart == m.lists[m.ud.cart]
        key  == item_key(product.id, variant)
        hits == {i \in 1..Len(cart) : m.dicts[cart[i]].key = key}
    IN  IF hits # {}
        THEN LET it == cart[CHOOSE i \in hits : \A j \in hits : i <= j]
             IN  [m EXCEPT !.dicts[it].qty = @ + qty]
        ELSE [m EXCEPT !.dicts = Append(@, [key |-> key, id |-> product.id,
                                            name |-> product.name, price |-> product.price,
                                            variant |-> variant, qty |-> qty]),
                       !.lists[m.ud.cart] = Append(@, Len(m.dicts) + 1)]

\* remove_item_from_cart that takes one unit off the item and deletes it
\* only when none is left
remove_item_from_cart_decrements(m0, key) ==
    LET m    == ensure_cart(m0)
        cart == m.lists[m.ud.cart]
        hits == {a \in Range(cart) : m.dicts[a].key = key}
    IN  [m EXCEPT !.dicts = [a \in DOMAIN @ |->
                                IF a \in hits THEN [@[a] EXCEPT !.qty = @ - 1] ELSE @[a]],
                  !.lists = Append(@, SelectSeq(cart, LAMBDA a :
                                          ~(a \in hits /\ m.dicts[a].qty = 1))),
                  !.ud = Put(@, "cart", Len(m.lists) + 1)]

\* remove_item_from_cart that keeps the item and sets its quantity to 0
remove_item_from_cart_zeroes(m0, key) ==
    LET m    == ensure_cart(m0)
        cart == m.lists[m.ud.cart]
        hits == {a \in Range(cart) : m.dicts[a].key = key}
    IN  [m EXCEPT !.dicts = [a \in DOMAIN @ |->
                                IF a \in hits THEN [@[a] EXCEPT !.qty = 0] ELSE @[a]],
                  !.lists = Append(@, cart),
                  !.ud = Put(@, "cart", Len(m.lists) + 1)]

\* remove_item_from_cart: binds user_data["cart"] to a new list of the same
\* item dicts without those of the key
remove_item_from_cart(m0, key) ==
    LET m    == ensure_cart(m0)
        cart == m.lists[m.ud.cart]
    IN  [m EXCEPT !.lists = Append(@, SelectSeq(cart, LAMBDA a : m.dicts[a].key # key)),
                  !.ud = Put(@, "cart", Len(m.lists) + 1)]

\* context.user_data["cart"] = []
clear_cart(m) ==
    [m EXCEPT !.lists = Append(@, <<>>), !.ud = Put(@, "cart", Len(m.lists) + 1)]

----------------------------------------------------------------------------
(* The outbound transport *)

\* What one call to the Bot API does: it succeeds, it is refused with
\* BadRequest (message not modified, message to edit not found, ...), or
\* it fails with another TelegramError (NetworkError, TimedOut, ...).
Results == {"ok", "BadRequest", "TelegramError"}

\* An update's transport outcomes: <<the first render or edit, the
\* fallback send of an "except BadRequest" clause>>: all goes well, the
\* edit is refused and the fallback goes well, the edit is refused and the
\* fallback fails, the first call fails.
Transports ==
    {<<"ok", "ok">>, <<"BadRequest", "ok">>, <<"BadRequest", "TelegramError">>,
     <<"TelegramError", "ok">>}

\* try: edit ... except BadRequest: send_message(...): the exception that
\* leaves the handler
TryEditElseSend(tr) ==
    IF tr[1] = "ok" THEN "none"
    ELSE IF tr[1] = "BadRequest" THEN (IF tr[2] = "ok" THEN "none" ELSE tr[2])
    ELSE tr[1]

\* a render outside any try: the exception that leaves the handler
Unguarded(tr) == IF tr[1] = "ok" THEN "none" ELSE tr[1]

\* the messages a guarded render of text shows to the user
ShownGuarded(tr, text) == IF TryEditElseSend(tr) = "none" THEN {text} ELSE {}

\* the messages an unguarded render of text shows to the user
ShownUnguarded(tr, text) == IF Unguarded(tr) = "none" THEN {text} ELSE {}

\* What a handler did: the memory it leaves, the value it returns (a
\* conversation state), the exception that left it ("none": it returned),
\* the messages it showed the user, the lines it wrote to orders.jsonl, and
\* (for the handlers that save an order) its side effects in program order.
Outcome(m, ret, exc, sent, out) ==
    [mem |-> m, ret |-> ret, exc |-> exc, sent |-> sent, out |-> out, steps |-> <<>>]

\* the same outcome, reached through these side effects
WithSteps(o, steps) == [o EXCEPT !.steps = steps]

\* ADMIN_CHAT_ID and the send to it: not configured, sent, or failed
Admins == {"unset", "ok", "failed"}

\* lines 488-500 and 557-571: the step the operator notification adds;
\* its exception is swallowed
NotifySteps(adm) ==
    IF adm = "unset" THEN <<>>
    ELSE IF adm = "ok" THEN <<"notify_admin">>
    ELSE <<"notify_admin_failed">>

----------------------------------------------------------------------------
(* Callback handlers of the shop *)

\* on_callback: shop, cart, clearcart, prod_<id>
on_callback(m, data, tr) ==
    IF data = T_shop
    THEN Outcome(m, END, TryEditElseSend(tr), ShownGuarded(tr, "Produits disponibles"), <<>>)
    ELSE IF data = T_cart
    THEN Outcome(ensure_cart(m), END, TryEditElseSend(tr), ShownGuarded(tr, "Votre panier"), <<>>)
    ELSE IF data = T_clearcart
    THEN Outcome(clear_cart(m), END, TryEditElseSend(tr), ShownGuarded(tr, "Panier vide."), <<>>)
    ELSE IF SplitOnce(data) \notin PRODUCT_INDEX
    THEN Outcome(m, END, IF tr[1] = "ok" \/ tr[2] = "ok" THEN "none" ELSE tr[2],
                 IF tr[1] = "ok" \/ tr[2] = "ok" THEN {"Produit introuvable."} ELSE {}, <<>>)
    ELSE Outcome(m, END, TryEditElseSend(tr), ShownGuarded(tr, "fiche produit"), <<>>)

\* add_to_cart_cb without the test for sizes: every product is added
add_to_cart_cb_ignores_variants(m, data, tr) ==
    LET pid == SplitOnce(data)
    IN  IF pid \notin PRODUCT_INDEX
        THEN Outcome(m, END, "none", {"Produit introuvable"}, <<>>)
        ELSE Outcome(add_item_to_cart(m, product_by_id(pid), None, 1), END, "none",
                     {"Ajoute au panier"}, <<>>)

\* add_to_cart_cb: a product with sizes gets the size buttons, any other
\* product is added
add_to_cart_cb(m, data, tr) ==
    LET pid == SplitOnce(data)
    IN  IF pid \notin PRODUCT_INDEX
        THEN Outcome(m, END, "none", {"Produit introuvable"}, <<>>)
        ELSE IF product_by_id(pid).variants # <<>>
        THEN Outcome(m, END, TryEditElseSend(tr), ShownGuarded(tr, "Choisis une taille"), <<>>)
        ELSE Outcome(add_item_to_cart(m, product_by_id(pid), None, 1), END, "none",
                     {"Ajoute au panier"}, <<>>)

\* choose_variant_cb without the membership test of the size
choose_variant_cb_unvalidated(m, data, tr) ==
    LET pid     == SplitTwice(data).pid
        variant == SplitTwice(data).variant
    IN  IF pid \notin PRODUCT_INDEX
        THEN Outcome(m, END, "none", {"Produit introuvable"}, <<>>)
        ELSE Outcome(add_item_to_cart(m, product_by_id(pid), variant, 1), END,
                     TryEditElseSend(tr), ShownGuarded(tr, "fiche produit"), <<>>)

\* choose_variant_cb: adds the product in the chosen size
choose_variant_cb(m, data, tr) ==
    LET pid     == SplitTwice(data).pid
        variant == SplitTwice(data).variant
    IN  IF pid \notin PRODUCT_INDEX
        THEN Outcome(m, END, "none", {"Produit introuvable"}, <<>>)
        ELSE IF variant \notin Range(product_by_id(pid).variants)
        THEN Outcome(m, END, "none", {"Taille invalide"}, <<>>)
        ELSE Outcome(add_item_to_cart(m, product_by_id(pid), variant, 1), END,
                     TryEditElseSend(tr), ShownGuarded(tr, "fiche produit"), <<>>)

\* remove_from_cart_cb
remove_from_cart_cb(m, data, tr) ==
    Outcome(remove_item_from_cart(m, SplitOnce(data)), END,
            TryEditElseSend(tr), ShownGuarded(tr, "Votre panier"), <<>>)

----------------------------------------------------------------------------
(* The checkout conversation *)

\* start_checkout_cb without the test for an empty cart
start_checkout_cb_unguarded(m0, tr) ==
    LET m == ensure_cart(m0)
    IN  Outcome([m EXCEPT !.ud = Put(@, "order", Put(<<>>, "cart", m.ud.cart))],
                ASK_NAME, Unguarded(tr), ShownUnguarded(tr, "Etape 1/3"), <<>>)

\* start_checkout_cb: the draft's "cart" is the cart's own list (line 400
\* copies the reference); the prompt is sent outside any try
start_checkout_cb(m0, tr) ==
    LET m == ensure_cart(m0)
    IN  IF m.lists[m.ud.cart] = <<>>
        THEN Outcome(m, END, "none", {"Votre panier est vide."}, <<>>)
        ELSE Outcome([m EXCEPT !.ud = Put(@, "order", Put(<<>>, "cart", m.ud.cart))],
                     ASK_NAME, Unguarded(tr), ShownUnguarded(tr, "Etape 1/3"), <<>>)

\* ask_name
ask_name(m, text, tr) ==
    LET order == IF HasDraft(m) THEN m.ud.order ELSE <<>>
    IN  Outcome([m EXCEPT !.ud = Put(@, "order", Put(order, "customer_name", Strip(text)))],
                ASK_ADDRESS, Unguarded(tr), ShownUnguarded(tr, "Etape 2/3"), <<>>)

\* ask_address
ask_address(m, text, tr) ==
    IF ~HasDraft(m)
    THEN Outcome(m, ASK_ADDRESS, "KeyError", {}, <<>>)
    ELSE Outcome([m EXCEPT !.ud = Put(@, "order", Put(m.ud.order, "address", Strip(text)))],
                 ASK_PHONE, Unguarded(tr), ShownUnguarded(tr, "Etape 3/3"), <<>>)

\* ask_phone: the recap reads order['customer_name'] and order['address']
ask_phone(m, text, tr) ==
    IF ~HasDraft(m)
    THEN Outcome(m, ASK_PHONE, "KeyError", {}, <<>>)
    ELSE LET m1 == ensure_cart([m EXCEPT !.ud = Put(@, "order",
                                            Put(m.ud.order, "phone", Strip(text)))])
         IN  IF {"customer_name", "address"} \subseteq DOMAIN m1.ud.order
             THEN Outcome(m1, ASK_CONFIRM, Unguarded(tr), ShownUnguarded(tr, "Recapitulatif"), <<>>)
             ELSE Outcome(m1, ASK_PHONE, "KeyError", {}, <<>>)

\* json.dumps(order): the line save_order writes, the cart by value
OrderLine(m, order) ==
    [k \in DOMAIN order |-> IF k = "cart" THEN ItemsOf(m, order.cart) ELSE order[k]]

\* confirm_or_cancel, data = "cancel_order"
cancel_order(m, tr) ==
    Outcome([m EXCEPT !.ud = Drop(@, "order")], END,
            TryEditElseSend(tr), ShownGuarded(tr, "Commande annulee."), <<>>)

\* confirm_order that empties the cart and drops the draft before it saves
confirm_order_clears_before_save(m0, uid, sink, adm, tr) ==
    LET m     == ensure_cart(m0)
        cart  == m.ud.cart
        order == Put(IF HasDraft(m) THEN m.ud.order ELSE <<>>, "cart", cart)
        line  == Put(Put(Put(order, "total", get_cart_total(m, cart)),
                         "user_id", uid),
                     "source", "bot")
        m2    == [clear_cart(m) EXCEPT !.ud = Drop(@, "order")]
    IN  IF ~sink
        THEN WithSteps(Outcome(m2, ASK_CONFIRM, "OSError", {}, <<>>),
                       <<"clear_cart", "pop_order", "save_order_failed">>)
        ELSE WithSteps(Outcome(m2, END, TryEditElseSend(tr), ShownGuarded(tr, "Merci !"),
                               << OrderLine(m, line) >>),
                       <<"clear_cart", "pop_order", "save_order">> \o NotifySteps(adm))

\* confirm_order whose operator notification is sent outside any try: a
\* failed send leaves the handler before the cart is emptied
confirm_order_notify_unguarded(m0, uid, sink, adm, tr) ==
    LET m     == ensure_cart(m0)
        cart  == m.ud.cart
        order == Put(IF HasDraft(m) THEN m.ud.order ELSE <<>>, "cart", cart)
        line  == Put(Put(Put(order, "total", get_cart_total(m, cart)),
                         "user_id", uid),
                     "source", "bot")
        m1    == IF HasDraft(m) THEN [m EXCEPT !.ud = Put(@, "order", order)] ELSE m
    IN  IF ~sink
        THEN WithSteps(Outcome(m1, ASK_CONFIRM, "OSError", {}, <<>>), <<"save_order_failed">>)
        ELSE IF adm = "failed"
        THEN WithSteps(Outcome(m1, ASK_CONFIRM, "TelegramError", {}, << OrderLine(m1, line) >>),
                       <<"save_order", "notify_admin_failed">>)
        ELSE WithSteps(Outcome([clear_cart(m1) EXCEPT !.ud = Drop(@, "order")], END,
                               TryEditElseSend(tr), ShownGuarded(tr, "Merci !"),
                               << OrderLine(m1, line) >>),
                       <<"save_order">> \o NotifySteps(adm) \o <<"clear_cart", "pop_order">>)

\* confirm_or_cancel, data = "confirm_order": the order dict is the draft
\* itself (or a fresh dict when there is none), and its "cart" is bound to
\* the cart's list (line 477); sink tells whether save_order's open and
\* write succeed.  The keys total, user_id and source are written to the
\* same dict; the model keeps them in the line only, since no code reads
\* them from a draft before line 478-483 writes them again.  username,
\* created_at and total_formatted are left out.  The operator notification
\* (adm) sits between save_order and the clearing of the cart, in a try
\* that swallows every exception.
confirm_order(m0, uid, sink, adm, tr) ==
    LET m     == ensure_cart(m0)
        cart  == m.ud.cart
        order == Put(IF HasDraft(m) THEN m.ud.order ELSE <<>>, "cart", cart)
        line  == Put(Put(Put(order, "total", get_cart_total(m, cart)),
                         "user_id", uid),
                     "source", "bot")
        m1    == IF HasDraft(m) THEN [m EXCEPT !.ud = Put(@, "order", order)] ELSE m
    IN  IF ~sink
        THEN WithSteps(Outcome(m1, ASK_CONFIRM, "OSError", {}, <<>>), <<"save_order_failed">>)
        ELSE WithSteps(Outcome([clear_cart(m1) EXCEPT !.ud = Drop(@, "order")], END,
                               TryEditElseSend(tr), ShownGuarded(tr, "Merci !"),
                               << OrderLine(m1, line) >>),
                       <<"save_order">> \o NotifySteps(adm) \o <<"clear_cart", "pop_order">>)

confirm_or_cancel(m, data, uid, sink, adm, tr) ==
    IF data = T_cancel THEN cancel_order(m, tr) ELSE confirm_order(m, uid, sink, adm, tr)

----------------------------------------------------------------------------
(* Commands and the embedded shop *)

\* start: replies with the welcome text and the menu, outside any try; it
\* reads and writes no user_data and returns None.  main() adds it as a
\* CommandHandler before the conversation, so the conversation's fallback
\* never sees /start; a fallback returning None would keep the state too.
start(m, tr) ==
    Outcome(m, END, Unguarded(tr), ShownUnguarded(tr, "Bienvenue"), <<>>)

\* The data an embedded shop submits, after json.loads: json tells whether
\* the text parses; ids are strings, prices are cents, quantities integers.
MugItem(qty) ==
    [id |-> <<"1">>, name |-> "Mug", price |-> 950, qty |-> qty, variant |-> None,
     image |-> "mug.jpg"]

Payloads ==
    { [json |-> FALSE],
      [json |-> TRUE, kind |-> "order", customer_name |-> <<"A">>,
       cart |-> << MugItem(2) >>],
      [json |-> TRUE, kind |-> "order", cart |-> <<>>],
      [json |-> TRUE, kind |-> "order", cart |-> << [id |-> <<"1">>, name |-> "Mug"] >>],
      [json |-> TRUE, kind |-> "cart", cart |-> << MugItem(1) >>],
      [json |-> TRUE, cart |-> << MugItem(1) >>] }

\* d.get(k), None when the key is missing
Get(d, k) == IF k \in DOMAIN d THEN d[k] ELSE None

\* lines 538-546: the keys of an item that go into the order
WebItem(i) ==
    [id |-> i.id, name |-> i.name, price |-> i.price, qty |-> i.qty,
     variant |-> Get(i, "variant")]

\* lines 534-553, without username, created_at and total_formatted
WebOrder(order_in, uid) ==
    LET cart == IF "cart" \in DOMAIN order_in THEN order_in.cart ELSE <<>>
    IN  [customer_name |-> Get(order_in, "customer_name"),
         address |-> Get(order_in, "address"),
         phone |-> Get(order_in, "phone"),
         cart |-> [k \in 1..Len(cart) |-> WebItem(cart[k])],
         total |-> SumItems(cart),
         user_id |-> uid,
         source |-> "webapp"]

\* the "except Exception" clause of handle_webapp_data: the error reply,
\* sent outside any try (tr[2] is its result)
WebError(m, steps, out, tr) ==
    WithSteps(Outcome(m, END, IF tr[2] = "ok" THEN "none" ELSE tr[2],
                      IF tr[2] = "ok" THEN {"Erreur lors du traitement"} ELSE {}, out),
              steps)

\* handle_webapp_data that, like confirm, empties the user's cart and
\* drops the draft once the order is saved
handle_webapp_data_clears_cart(m, order_in, uid, sink, adm, tr) ==
    IF ~order_in.json
    THEN WebError(m, <<>>, <<>>, tr)
    ELSE IF Get(order_in, "kind") # "order"
    THEN (IF tr[1] = "ok"
          THEN Outcome(m, END, "none", {"Type de donnee non supporte."}, <<>>)
          ELSE WebError(m, <<>>, <<>>, tr))
    ELSE LET cart == IF "cart" \in DOMAIN order_in THEN order_in.cart ELSE <<>>
             m2   == [clear_cart(m) EXCEPT !.ud = Drop(@, "order")]
         IN  IF \E k \in 1..Len(cart) :
                    ~({"id", "name", "price", "qty"} \subseteq DOMAIN cart[k])
             THEN WebError(m, <<>>, <<>>, tr)
             ELSE IF ~sink
             THEN WebError(m, <<"save_order_failed">>, <<>>, tr)
             ELSE IF tr[1] = "ok"
             THEN WithSteps(Outcome(m2, END, "none", {"Merci ! (WebApp)"},
                                    << WebOrder(order_in, uid) >>),
                            <<"save_order">> \o NotifySteps(adm))
             ELSE WebError(m2, <<"save_order">> \o NotifySteps(adm),
                           << WebOrder(order_in, uid) >>, tr)

\* handle_webapp_data: everything up to the thanks sits in one try whose
\* except replies with an error; user_data is never touched.
handle_webapp_data(m, order_in, uid, sink, adm, tr) ==
    IF ~order_in.json
    THEN WebError(m, <<>>, <<>>, tr)
    ELSE IF Get(order_in, "kind") # "order"
    THEN (IF tr[1] = "ok"
          THEN Outcome(m, END, "none", {"Type de donnee non supporte."}, <<>>)
          ELSE WebError(m, <<>>, <<>>, tr))
    ELSE LET cart == IF "cart" \in DOMAIN order_in THEN order_in.cart ELSE <<>>
         IN  IF \E k \in 1..Len(cart) :
                    ~({"id", "name", "price", "qty"} \subseteq DOMAIN cart[k])
             THEN WebError(m, <<>>, <<>>, tr)
             ELSE IF ~sink
             THEN WebError(m, <<"save_order_failed">>, <<>>, tr)
             ELSE IF tr[1] = "ok"
             THEN WithSteps(Outcome(m, END, "none", {"Merci ! (WebApp)"},
                                    << WebOrder(order_in, uid) >>),
                            <<"save_order">> \o NotifySteps(adm))
             ELSE WebError(m, <<"save_order">> \o NotifySteps(adm),
                           << WebOrder(order_in, uid) >>, tr)

----------------------------------------------------------------------------
(* The state machine *)

NoUpdate ==
    [ev |-> "none", u |-> "u1", c |-> "c1", data |-> <<>>, exc |-> "none", sent |-> {},
     steps |-> <<>>]

\* no keyboard built yet
NoButton == [kind |-> "none", id |-> <<>>, variant |-> None]

\* the (id, variant) pairs SpecAdd adds
Pairs == {<<PRODUCTS[i].id, v>> : i \in 1..Len(PRODUCTS), v \in {None, <<"M">>}}

\* After construction: no user has data, no key is in a conversation, the
\* order log is empty.
Init ==
    /\ user_data = [u \in Users |-> <<>>]
    /\ heap = [u \in Users |-> [lists |-> <<>>, dicts |-> <<>>]]
    /\ conversations = [k \in Chats \X Users |-> END]
    /\ orders = <<>>
    /\ last = NoUpdate
    /\ beginCart = [u \in Users |-> <<>>]
    /\ added = [p \in Pairs |-> 0]
    /\ visible = [c \in Chats |-> <<>>]
    /\ recap = <<>>
    /\ button = NoButton

\* Init with the recap of every user recorded
InitRecap ==
    /\ user_data = [u \in Users |-> <<>>]
    /\ heap = [u \in Users |-> [lists |-> <<>>, dicts |-> <<>>]]
    /\ conversations = [k \in Chats \X Users |-> END]
    /\ orders = <<>>
    /\ last = NoUpdate
    /\ beginCart = [u \in Users |-> <<>>]
    /\ added = [p \in Pairs |-> 0]
    /\ visible = [c \in Chats |-> <<>>]
    /\ recap = [u \in Users |-> <<>>]
    /\ button = NoButton

RECURSIVE SumQty(_)
SumQty(items) == IF items = <<>> THEN 0 ELSE items[1].qty + SumQty(Tail(items))

\* Commit for handlers that keep the cart and the draft in one dict shared
\* by all users (bot_data) and the conversation under the chat alone
Commit_shared_session(u, c, ev, data, res0, inConv) ==
    \E res \in {res0} : \E n \in {Normalize(res.mem)} :
        /\ Len(orders) < MaxOrders
        /\ SumQty(CartItems(n)) <= MaxQty
        /\ user_data' = [v \in Users |-> n.ud]
        /\ heap' = [v \in Users |-> [lists |-> n.lists, dicts |-> n.dicts]]
        /\ conversations' = IF inConv /\ res.exc = "none"
                            THEN [k \in Chats \X Users |->
                                     IF k[1] = c THEN res.ret ELSE conversations[k]]
                            ELSE conversations
        /\ orders' = orders \o res.out
        /\ last' = [ev |-> ev, u |-> u, c |-> c, data |-> data,
                    exc |-> res.exc, sent |-> res.sent, steps |-> res.steps]
        /\ beginCart' = [beginCart EXCEPT ![u] =
                            IF ~HasDraft(n) THEN <<>>
                            ELSE IF ev = "start_checkout_cb" /\ res.ret = ASK_NAME
                            THEN CartItems(n)
                            ELSE @]
        /\ recap' = [v \in DOMAIN recap |->
                        IF v # u THEN recap[v]
                        ELSE IF ev = "ask_phone" /\ res.exc = "none" THEN CartItems(n)
                        ELSE IF \E c2 \in Chats : conversations'[<<c2, u>>] = ASK_CONFIRM
                        THEN recap[v]
                        ELSE <<>>]
        /\ UNCHANGED <<added, visible, button>>

\* The dispatcher has run handler ev on an update of user u in chat c with
\* outcome res.  A conversation handler's return value becomes the state of
\* the key <<c, u>>; when an exception leaves the handler the dispatcher
\* hands it to error_handler, which prints it, and the state stays.
Commit(u, c, ev, data, res0, inConv) ==
    \E res \in {res0} : \E n \in {Normalize(res.mem)} :
        /\ Len(orders) < MaxOrders
        /\ SumQty(CartItems(n)) <= MaxQty
        /\ user_data' = [user_data EXCEPT ![u] = n.ud]
        /\ heap' = [heap EXCEPT ![u] = [lists |-> n.lists, dicts |-> n.dicts]]
        /\ conversations' = IF inConv /\ res.exc = "none"
                            THEN [conversations EXCEPT ![<<c, u>>] = res.ret]
                            ELSE conversations
        /\ orders' = orders \o res.out
        /\ last' = [ev |-> ev, u |-> u, c |-> c, data |-> data,
                    exc |-> res.exc, sent |-> res.sent, steps |-> res.steps]
        /\ beginCart' = [beginCart EXCEPT ![u] =
                            IF ~HasDraft(n) THEN <<>>
                            ELSE IF ev = "start_checkout_cb" /\ res.ret = ASK_NAME
                            THEN CartItems(n)
                            ELSE @]
        /\ recap' = [v \in DOMAIN recap |->
                        IF v # u THEN recap[v]
                        ELSE IF ev = "ask_phone" /\ res.exc = "none" THEN CartItems(n)
                        ELSE IF \E c2 \in Chats : conversations'[<<c2, u>>] = ASK_CONFIRM
                        THEN recap[v]
                        ELSE <<>>]
        /\ UNCHANGED <<added, visible, button>>

OnCallback(u, c, t) ==
    /\ Routes[t, conversations[<<c, u>>]] = "on_callback"
    /\ \E tr \in Transports :
          Commit(u, c, "on_callback", t, on_callback(Mem(u), t, tr), FALSE)

AddToCart(u, c, t) ==
    /\ Routes[t, conversations[<<c, u>>]] = "add_to_cart_cb"
    /\ \E tr \in Transports :
          Commit(u, c, "add_to_cart_cb", t, add_to_cart_cb(Mem(u), t, tr), FALSE)

ChooseVariant(u, c, t) ==
    /\ Routes[t, conversations[<<c, u>>]] = "choose_variant_cb"
    /\ \E tr \in Transports :
          Commit(u, c, "choose_variant_cb", t, choose_variant_cb(Mem(u), t, tr), FALSE)

RemoveFromCart(u, c, t) ==
    /\ Routes[t, conversations[<<c, u>>]] = "remove_from_cart_cb"
    /\ \E tr \in Transports :
          Commit(u, c, "remove_from_cart_cb", t, remove_from_cart_cb(Mem(u), t, tr), FALSE)

StartCheckout(u, c, t) ==
    /\ Routes[t, conversations[<<c, u>>]] = "start_checkout_cb"
    /\ \E tr \in Transports :
          Commit(u, c, "start_checkout_cb", t, start_checkout_cb(Mem(u), tr), TRUE)

ConfirmOrCancel(u, c, t) ==
    /\ Routes[t, conversations[<<c, u>>]] = "confirm_or_cancel"
    /\ \E sink \in BOOLEAN, adm \in Admins, tr \in Transports :
          Commit(u, c, "confirm_or_cancel", t,
                 confirm_or_cancel(Mem(u), t, u, sink, adm, tr), TRUE)

AskName(u, c, text) ==
    /\ RouteText(conversations[<<c, u>>]) = "ask_name"
    /\ \E tr \in Transports :
          Commit(u, c, "ask_name", text, ask_name(Mem(u), text, tr), TRUE)

AskAddress(u, c, text) ==
    /\ RouteText(conversations[<<c, u>>]) = "ask_address"
    /\ \E tr \in Transports :
          Commit(u, c, "ask_address", text, ask_address(Mem(u), text, tr), TRUE)

AskPhone(u, c, text) ==
    /\ RouteText(conversations[<<c, u>>]) = "ask_phone"
    /\ \E tr \in Transports :
          Commit(u, c, "ask_phone", text, ask_phone(Mem(u), text, tr), TRUE)

\* /start, in any state of the conversation
StartCmd(u, c) ==
    \E tr \in Transports :
        Commit(u, c, "start", <<>>, start(Mem(u), tr), FALSE)

\* a message with web_app_data, in any state of the conversation: its
\* handler is added before the conversation and is no part of it
WebAppData(u, c, order_in) ==
    \E sink \in BOOLEAN, adm \in Admins, tr \in Transports :
        Commit(u, c, "handle_webapp_data", order_in,
               handle_webapp_data(Mem(u), order_in, u, sink, adm, tr), FALSE)

\* One update of a user of U in a chat of C is handled to the end:
\* updates of one user are handled one at a time.
NextOn(U, C, Toks) ==
    \E u \in U, c \in C :
        \/ \E t \in Toks :
              \/ OnCallback(u, c, t)
              \/ AddToCart(u, c, t)
              \/ ChooseVariant(u, c, t)
              \/ RemoveFromCart(u, c, t)
              \/ StartCheckout(u, c, t)
              \/ ConfirmOrCancel(u, c, t)
        \/ \E text \in Texts :
              \/ AskName(u, c, text)
              \/ AskAddress(u, c, text)
              \/ AskPhone(u, c, text)

\* one user in a private chat
Next == NextOn({"u1"}, {"c1"}, ShopTokens)

Spec == Init /\ [][Next]_vars

\* one user in a private chat who also types /start and uses the embedded shop
NextBot ==
    \/ NextOn({"u1"}, {"c1"}, BotTokens)
    \/ StartCmd("u1", "c1")
    \/ \E order_in \in Payloads : WebAppData("u1", "c1", order_in)

SpecBot == Init /\ [][NextBot]_vars

\* one user in a private chat, the recap shown at ASK_CONFIRM recorded
SpecRecap == InitRecap /\ [][NextOn({"u1"}, {"c1"}, BotTokens)]_vars

\* one user pressing buttons in two chats (a private chat and a group)
NextChats == NextOn({"u1"}, Chats, BotTokens)

SpecChats == Init /\ [][NextChats]_vars

\* two users in one chat (a group), their updates interleaved: u1 presses
\* every button of BotTokens, u2 adds the mug and goes through a checkout
NextUsers ==
    \/ NextOn({"u1"}, {"c1"}, BotTokens)
    \/ AddToCart("u2", "c1", P_add \o <<"1">>)
    \/ StartCheckout("u2", "c1", T_checkout)
    \/ \E text \in Texts :
          \/ AskName("u2", "c1", text)
          \/ AskAddress("u2", "c1", text)
          \/ AskPhone("u2", "c1", text)
    \/ ConfirmOrCancel("u2", "c1", T_confirm)

SpecUsers == Init /\ [][NextUsers]_vars

----------------------------------------------------------------------------
(* The cart utility alone: sequences of add_item_to_cart on one cart *)

CartAdd(u, pair, qty) ==
    LET n == Normalize(add_item_to_cart(Mem(u), product_by_id(pair[1]), pair[2], qty))
    IN  /\ added[pair] + qty <= MaxSum
        /\ user_data' = [user_data EXCEPT ![u] = n.ud]
        /\ heap' = [heap EXCEPT ![u] = [lists |-> n.lists, dicts |-> n.dicts]]
        /\ added' = [added EXCEPT ![pair] = @ + qty]
        /\ last' = [NoUpdate EXCEPT !.ev = "add_item_to_cart", !.data = item_key(pair[1], pair[2])]
        /\ UNCHANGED <<conversations, orders, beginCart, visible, recap, button>>

NextAdd == \E pair \in Pairs, qty \in 1..2 : CartAdd("u1", pair, qty)

SpecAdd == Init /\ [][NextAdd]_vars

----------------------------------------------------------------------------
(* The views alone: the catalog list, the product detail and the cart, as
   messages of a chat.  A message is its kind, "text" or "photo"; the bot
   keeps no record of the message it showed last, a view works on the
   message whose button was pressed (query.message) or, for a command, on
   no message at all. *)

\* the buttons that open a view
ViewTokens == {T_shop, T_cart} \cup {P_prod \o pid : pid \in {<<"1">>, <<"3">>, <<"9">>}}

\* the Bot API results of one view: <<delete, first edit or send, fallback send>>
ViewTransports == Results \X Results \X Results

\* a sequence without its i-th element
RemoveAt(s, i) == SubSeq(s, 1, i - 1) \o SubSeq(s, i + 1, Len(s))

\* What a view did to the chat: the messages it leaves, the exception
\* that left the handler.
Shown(msgs, exc) == [msgs |-> msgs, exc |-> exc]

\* the send of an "except BadRequest" clause: a new message of that kind
FallbackSend(msgs, kind, tr) ==
    IF tr[3] = "ok" THEN Shown(Append(msgs, kind), "none") ELSE Shown(msgs, tr[3])

\* Lines 195-207 and 263-275: with a message (i > 0) a photo is deleted
\* and a text sent, a text is edited in place; BadRequest from any of
\* these sends a new text; without a message (i = 0) the text is a reply.
RenderText(msgs, i, tr) ==
    IF i = 0
    THEN (IF tr[2] = "ok" THEN Shown(Append(msgs, "text"), "none") ELSE Shown(msgs, tr[2]))
    ELSE IF msgs[i] = "photo"
    THEN (IF tr[1] = "ok"
          THEN (IF tr[2] = "ok" THEN Shown(Append(RemoveAt(msgs, i), "text"), "none")
                ELSE IF tr[2] = "BadRequest" THEN FallbackSend(RemoveAt(msgs, i), "text", tr)
                ELSE Shown(RemoveAt(msgs, i), tr[2]))
          ELSE IF tr[1] = "BadRequest" THEN FallbackSend(msgs, "text", tr)
          ELSE Shown(msgs, tr[1]))
    ELSE (IF tr[2] = "ok" THEN Shown(msgs, "none")
          ELSE IF tr[2] = "BadRequest" THEN FallbackSend(msgs, "text", tr)
          ELSE Shown(msgs, tr[2]))

send_product_list(msgs, i, tr) == RenderText(msgs, i, tr)

send_cart(msgs, i, tr) == RenderText(msgs, i, tr)

\* the result of msg.edit_text: a photo has no text to edit, the Bot API
\* refuses it with BadRequest
EditText(msgs, i, tr) == IF msgs[i] = "photo" THEN "BadRequest" ELSE tr[2]

\* send_product_detail(prod_id, edit_existing=True) on the message i of a
\* button press
send_product_detail(msgs, i, pid, tr) ==
    IF pid \notin PRODUCT_INDEX
    THEN (IF EditText(msgs, i, tr) = "ok" THEN Shown(msgs, "none")
          ELSE FallbackSend(msgs, "text", tr))
    ELSE IF msgs[i] = "photo" /\ product_by_id(pid).image # ""
    THEN (IF tr[2] = "ok" THEN Shown(msgs, "none")
          ELSE IF tr[2] = "BadRequest" THEN FallbackSend(msgs, "photo", tr)
          ELSE Shown(msgs, tr[2]))
    ELSE IF product_by_id(pid).image # ""
    THEN (IF tr[1] = "ok"
          THEN (IF tr[2] = "ok" THEN Shown(Append(RemoveAt(msgs, i), "photo"), "none")
                ELSE IF tr[2] = "BadRequest" THEN FallbackSend(RemoveAt(msgs, i), "photo", tr)
                ELSE Shown(RemoveAt(msgs, i), tr[2]))
          ELSE IF tr[1] = "BadRequest" THEN FallbackSend(msgs, "photo", tr)
          ELSE Shown(msgs, tr[1]))
    ELSE (IF EditText(msgs, i, tr) = "ok" THEN Shown(msgs, "none")
          ELSE IF EditText(msgs, i, tr) = "BadRequest" THEN FallbackSend(msgs, "text", tr)
          ELSE Shown(msgs, tr[2]))

\* on_callback, for the data that opens a view
on_callback_view(msgs, i, data, tr) ==
    IF data = T_shop THEN send_product_list(msgs, i, tr)
    ELSE IF data = T_cart THEN send_cart(msgs, i, tr)
    ELSE send_product_detail(msgs, i, SplitOnce(data), tr)

\* a view was rendered in chat c
CommitView(u, c, ev, data, shown) ==
    /\ visible' = [visible EXCEPT ![c] = shown.msgs]
    /\ last' = [ev |-> ev, u |-> u, c |-> c, data |-> data, exc |-> shown.exc, sent |-> {},
                steps |-> <<>>]
    /\ UNCHANGED <<user_data, heap, conversations, orders, beginCart, added, recap, button>>

\* /shop
ShopCmd(u, c) ==
    /\ Len(visible[c]) < MaxMsgs
    /\ \E tr \in ViewTransports :
          CommitView(u, c, "shop_cmd", <<>>, send_product_list(visible[c], 0, tr))

\* /cart
CartCmd(u, c) ==
    /\ Len(visible[c]) < MaxMsgs
    /\ \E tr \in ViewTransports :
          CommitView(u, c, "cart_cmd", <<>>, send_cart(visible[c], 0, tr))

\* a press of the button t of the i-th visible message
ViewCallback(u, c, i, t) ==
    /\ Len(visible[c]) < MaxMsgs
    /\ MatchNav(t)
    /\ \E tr \in ViewTransports :
          CommitView(u, c, "on_callback", t, on_callback_view(visible[c], i, t, tr))

NextView ==
    \E u \in {"u1"}, c \in {"c1"} :
        \/ ShopCmd(u, c)
        \/ CartCmd(u, c)
        \/ \E i \in 1..Len(visible[c]), t \in ViewTokens : ViewCallback(u, c, i, t)

SpecView == Init /\ [][NextView]_vars

----------------------------------------------------------------------------
(* Callback data alone: a button is built for a product id (and variant),
   pressed, routed by the patterns of main() and taken apart by the
   handler it reaches.  Ids are whatever str(p["id"]) of products.json
   gives, variants whatever strings the product lists. *)

\* the strings of 1 to n characters of a set
Strings(chars, n) == UNION {[1..k -> chars] : k \in 1..n}

Ids == Strings({"1", "_", "-"}, MaxIdLen)

Variants == Strings({"M", "_"}, MaxVariantLen)

\* f"prod_{p['id']}"
ProdToken(pid) == P_prod \o pid

\* f"add_{prod_id}"
AddToken(pid) == P_add \o pid

\* f"choose_{pid}_{v}"
ChooseToken(pid, v) == P_choose \o pid \o <<"_">> \o v

\* f"rm_{it['key']}"
RmToken(key) == P_rm \o key

Buttons ==
    [kind : {"prod", "add"}, id : Ids, variant : {None}]
    \cup [kind : {"choose"}, id : Ids, variant : Variants]
    \cup [kind : {"rm"}, id : Ids, variant : Variants \cup {None}]

\* the callback_data of a button
ButtonToken(b) ==
    IF b.kind = "prod" THEN ProdToken(b.id)
    ELSE IF b.kind = "add" THEN AddToken(b.id)
    ELSE IF b.kind = "choose" THEN ChooseToken(b.id, b.variant)
    ELSE RmToken(item_key(b.id, b.variant))

\* what the handler ev reads out of callback data: pid (lines 331, 339),
\* pid and variant (line 364), key (line 381)
Decoded(ev, data) ==
    IF ev = "choose_variant_cb" THEN <<SplitTwice(data).pid, SplitTwice(data).variant>>
    ELSE IF ev \in {"add_to_cart_cb", "remove_from_cart_cb", "on_callback"}
    THEN <<SplitOnce(data)>>
    ELSE <<>>

\* after construction, with a keyboard holding one button
InitTokens ==
    /\ user_data = [u \in Users |-> <<>>]
    /\ heap = [u \in Users |-> [lists |-> <<>>, dicts |-> <<>>]]
    /\ conversations = [k \in Chats \X Users |-> END]
    /\ orders = <<>>
    /\ last = NoUpdate
    /\ beginCart = [u \in Users |-> <<>>]
    /\ added = [p \in Pairs |-> 0]
    /\ visible = [c \in Chats |-> <<>>]
    /\ recap = <<>>
    /\ button \in Buttons

\* the button is pressed: the dispatcher picks the handler, the handler
\* splits the data
PressButton ==
    /\ last.ev = "none"
    /\ LET data == ButtonToken(button)
           ev   == RouteCallback(data, END)
       IN  last' = [NoUpdate EXCEPT !.ev = IF ev = "none" THEN "unhandled" ELSE ev,
                                    !.data = data,
                                    !.steps = Decoded(ev, data)]
    /\ UNCHANGED <<user_data, heap, conversations, orders, beginCart, added, visible, recap,
                   button>>

NextTokens == PressButton

SpecTokens == InitTokens /\ [][NextTokens]_vars

----------------------------------------------------------------------------
(* Properties *)

ContactKeys == {"customer_name", "address", "phone"}

\* the update handled last was handler ev, from user u in chat c
Handled(ev, u, c) == last.ev = ev /\ last.u = u /\ last.c = c

\* the update handled last was a press of "confirm_order" whose save_order failed
SaveFailed(u, c) ==
    Handled("confirm_or_cancel", u, c) /\ last.data = T_confirm /\ last.exc = "OSError"

\* C1: the Order appended on confirm has the items the cart had when
\* begin-checkout created the draft, whatever was added, removed or cleared
\* in between.
C1_ConfirmAppendsSnapshot ==
    [][\A u \in Users, c \in Chats :
          (Handled("confirm_or_cancel", u, c)' /\ HasDraft(Mem(u)) /\ Len(orders') > Len(orders))
              => orders'[Len(orders')].cart = beginCart[u]]_vars

\* C1, second half: while a draft exists, the items of its cart snapshot
\* are those the cart had when the draft was created.
C1_DraftSnapshotFrozen ==
    \A u \in Users :
        (HasDraft(Mem(u)) /\ "cart" \in DOMAIN user_data[u].order)
            => DraftItems(Mem(u)) = beginCart[u]

\* C2: a confirm whose save_order fails leaves the cart's items as they
\* were, keeps the draft with its name, address and phone, and leaves the
\* dialogue in ASK_CONFIRM; nothing is written to the order log.
C2_FailedSaveKeepsCartAndDraft ==
    [][\A u \in Users, c \in Chats :
          SaveFailed(u, c)' =>
              /\ CartItems(Mem(u))' = CartItems(Mem(u))
              /\ conversations[<<c, u>>] = ASK_CONFIRM
              /\ conversations'[<<c, u>>] = ASK_CONFIRM
              /\ orders' = orders
              /\ HasDraft(Mem(u)) =>
                    /\ HasDraft(Mem(u))'
                    /\ \A k \in ContactKeys \cap DOMAIN user_data[u].order :
                          /\ k \in DOMAIN user_data'[u].order
                          /\ user_data'[u].order[k] = user_data[u].order[k]]_vars

\* a failed save met a full draft and a cart with items
C2_Witness ==
    \E u \in Users, c \in Chats :
        /\ SaveFailed(u, c)
        /\ conversations[<<c, u>>] = ASK_CONFIRM
        /\ HasDraft(Mem(u))
        /\ ContactKeys \subseteq DOMAIN user_data[u].order
        /\ CartItems(Mem(u)) # <<>>

\* C3: a confirm whose save_order fails shows the user an error notice and
\* no success message.
C3_FailedSaveShowsError ==
    \A u \in Users, c \in Chats :
        SaveFailed(u, c) => (last.sent # {} /\ "Merci !" \notin last.sent)

\* C4: confirm appends exactly one Order for a checkout that was begun and
\* confirmed, and none when the user has no active draft.
C4_OneOrderPerDraft ==
    [][\A u \in Users, c \in Chats :
          (Handled("confirm_or_cancel", u, c)' /\ Len(orders') > Len(orders))
              => (HasDraft(Mem(u)) /\ Len(orders') = Len(orders) + 1)]_vars

\* C5: begin-checkout on an empty cart leaves the dialogue in IDLE and
\* creates no draft: the session has an 'order' entry afterwards only if it
\* had that very entry before.
C5_BeginOnEmptyCartIsNoOp ==
    [][\A u \in Users, c \in Chats :
          (Handled("start_checkout_cb", u, c)' /\ CartItems(Mem(u)) = <<>>) =>
              /\ conversations[<<c, u>>] = END
              /\ conversations'[<<c, u>>] = END
              /\ HasDraft(Mem(u))' = HasDraft(Mem(u))
              /\ DraftItems(Mem(u))' = DraftItems(Mem(u))
              /\ CartItems(Mem(u))' = <<>>]_vars

\* begin-checkout was pressed on an empty cart of a user without draft
C5_Witness ==
    \E u \in Users, c \in Chats :
        /\ Handled("start_checkout_cb", u, c)
        /\ "Votre panier est vide." \in last.sent
        /\ "cart" \in DOMAIN user_data[u]
        /\ ~HasDraft(Mem(u))
        /\ conversations[<<c, u>>] = END

\* C6: cancel at ASK_CONFIRM discards the draft, returns the dialogue to
\* IDLE and changes no cart item and no quantity.
C6_CancelDiscardsAndReturnsToIdle ==
    [][\A u \in Users, c \in Chats :
          (Handled("confirm_or_cancel", u, c)' /\ last'.data = T_cancel) =>
              /\ ~HasDraft(Mem(u))'
              /\ conversations'[<<c, u>>] = END
              /\ CartItems(Mem(u))' = CartItems(Mem(u))]_vars

\* C7: after any sequence of add_item_to_cart calls the cart holds one
\* item per (id, variant) pair added, with the sum of the pair's quantities,
\* and no other item.
C7_OneItemPerPairWithSum ==
    \A u \in {"u1"} :
        LET items == CartItems(Mem(u))
        IN  /\ Len(items) = Cardinality({p \in Pairs : added[p] > 0})
            /\ \A p \in Pairs :
                  LET hits == {i \in 1..Len(items) :
                                  items[i].id = p[1] /\ items[i].variant = p[2]}
                  IN  IF added[p] = 0 THEN hits = {}
                      ELSE /\ Cardinality(hits) = 1
                           /\ \A i \in hits : items[i].qty = added[p]

\* three pairs were added, one of them in several calls
C7_Witness ==
    /\ last.ev = "add_item_to_cart"
    /\ Cardinality({p \in Pairs : added[p] > 0}) = 3
    /\ added[<<(<<"3">>), (<<"M">>)>>] = 3
    /\ added[<<(<<"3">>), None>>] = 2

KeysOf(items) == {items[i].key : i \in 1..Len(items)}

\* the keys remove is tried with: those of the catalog and one of no item
RemoveKeys == Keys \cup {item_key(<<"9">>, None)}

\* C8: remove(key) twice leaves the cart that remove(key) once leaves, and
\* remove(key) on a cart without an item of that key leaves its items as
\* they are.
C8_RemoveIdempotent ==
    \A u \in Users, key \in RemoveKeys :
        LET once  == remove_item_from_cart(Mem(u), key)
            twice == remove_item_from_cart(once, key)
        IN  /\ CartItems(twice) = CartItems(once)
            /\ key \notin KeysOf(CartItems(Mem(u))) => CartItems(once) = CartItems(Mem(u))

\* an item was removed from a cart that keeps another item, of quantity 2
C8_Witness ==
    \E u \in Users, c \in Chats :
        /\ Handled("remove_from_cart_cb", u, c)
        /\ SplitOnce(last.data) \notin KeysOf(CartItems(Mem(u)))
        /\ \E i \in 1..Len(CartItems(Mem(u))) : CartItems(Mem(u))[i].qty = 2

HasVariants(pid) == pid \in PRODUCT_INDEX /\ product_by_id(pid).variants # <<>>

\* the quantity of product pid in a sequence of items
QtyOf(items, pid) == SumQty(SelectSeq(items, LAMBDA it : it.id = pid))

\* C9: add-to-cart for a product with sizes, sent without a size, changes
\* no cart; the quantity of such a product grows only by a choose-variant
\* event naming that product and one of its sizes.
C9_AddWithoutVariantIsNoOp ==
    [][\A u \in Users :
          /\ (last'.ev = "add_to_cart_cb" /\ last'.u = u /\ HasVariants(SplitOnce(last'.data)))
                => /\ CartItems(Mem(u))' = CartItems(Mem(u))
                   /\ DraftItems(Mem(u))' = DraftItems(Mem(u))
          /\ \A pid \in PRODUCT_INDEX :
                (HasVariants(pid)
                 /\ QtyOf(CartItems(Mem(u))', pid) > QtyOf(CartItems(Mem(u)), pid))
                    => /\ last'.ev = "choose_variant_cb"
                       /\ last'.u = u
                       /\ SplitTwice(last'.data).pid = pid
                       /\ SplitTwice(last'.data).variant \in Range(product_by_id(pid).variants)
      ]_vars

\* add-to-cart was pressed for the product with sizes, on a cart with items
C9_Witness ==
    \E u \in Users, c \in Chats :
        /\ Handled("add_to_cart_cb", u, c)
        /\ HasVariants(SplitOnce(last.data))
        /\ "Choisis une taille" \in last.sent
        /\ CartItems(Mem(u)) # <<>>

\* the size that callback data names is no size of its product, or the
\* product is unknown
InvalidChoice(data) ==
    \/ SplitTwice(data).pid \notin PRODUCT_INDEX
    \/ SplitTwice(data).variant \notin Range(product_by_id(SplitTwice(data).pid).variants)

\* C10: a choose-variant event with an unknown product or with a size the
\* product does not have changes no cart, no draft and no dialogue state.
C10_InvalidChoiceChangesNothing ==
    [][\A u \in Users, c \in Chats :
          (Handled("choose_variant_cb", u, c)' /\ InvalidChoice(last'.data))
              => /\ CartItems(Mem(u))' = CartItems(Mem(u))
                 /\ (HasDraft(Mem(u)) \/ HasDraft(Mem(u))')
                       => /\ HasDraft(Mem(u)) /\ HasDraft(Mem(u))'
                          /\ user_data'[u].order = user_data[u].order
                          /\ DraftItems(Mem(u))' = DraftItems(Mem(u))
                 /\ conversations' = conversations]_vars

\* an invalid size was chosen in the middle of a checkout
C10_Witness ==
    \E u \in Users, c \in Chats :
        /\ Handled("choose_variant_cb", u, c)
        /\ InvalidChoice(last.data)
        /\ "Taille invalide" \in last.sent
        /\ HasDraft(Mem(u))
        /\ conversations[<<c, u>>] = ASK_ADDRESS
        /\ CartItems(Mem(u)) # <<>>

\* C11: a chat never shows two of the bot's view messages at once.
C11_OneVisibleMessage ==
    \A c \in Chats : Len(visible[c]) <= 1

\* C12: /start received in ASK_NAME, ASK_ADDRESS, ASK_PHONE or
\* ASK_CONFIRM moves the dialogue to IDLE and discards the draft.
C12_StartResetsDialogue ==
    [][\A u \in Users, c \in Chats :
          (Handled("start", u, c)' /\ conversations[<<c, u>>] # END)
              => /\ conversations'[<<c, u>>] = END
                 /\ ~HasDraft(Mem(u))']_vars

\* the contact fields a draft holds, None for those not captured yet
Contact(m) == [k \in ContactKeys |-> Get(m.ud.order, k)]

\* C13: begin-checkout from a user whose dialogue is under way in some chat
\* leaves that user's draft as it is: it still exists, with the same cart
\* snapshot and the same name, address and phone.
C13_BeginWithDraftIsIgnored ==
    [][\A u \in Users, c \in Chats :
          (/\ Handled("start_checkout_cb", u, c)'
           /\ HasDraft(Mem(u))
           /\ \E c2 \in Chats : conversations[<<c2, u>>] # END)
              => /\ HasDraft(Mem(u))'
                 /\ Contact(Mem(u))' = Contact(Mem(u))
                 /\ DraftItems(Mem(u))' = DraftItems(Mem(u))]_vars

\* the state a step of the checkout moves the dialogue to when its prompt
\* or result message is rendered
StateAfter(ev) ==
    IF ev = "start_checkout_cb" THEN ASK_NAME
    ELSE IF ev = "ask_name" THEN ASK_ADDRESS
    ELSE IF ev = "ask_address" THEN ASK_PHONE
    ELSE IF ev = "ask_phone" THEN ASK_CONFIRM
    ELSE END

\* C14: when the prompt or result message of begin-checkout, of a text
\* turn, of cancel or of confirm fails to render, the dialogue is in the
\* state it reaches when the render succeeds.
C14_RenderFailureKeepsTransition ==
    [][\A u \in Users, c \in Chats :
          (/\ last'.u = u /\ last'.c = c
           /\ last'.ev \in {"start_checkout_cb", "ask_name", "ask_address", "ask_phone",
                            "confirm_or_cancel"}
           /\ last'.exc \in {"BadRequest", "TelegramError"})
              => conversations'[<<c, u>>] = StateAfter(last'.ev)]_vars

\* step a comes before step b in a sequence of steps that holds b
Precedes(steps, a, b) ==
    \A j \in 1..Len(steps) : steps[j] = b => \E i \in 1..(j - 1) : steps[i] = a

\* C15: in a confirm the order is appended before the operator is
\* notified and before the cart is emptied; without the append neither
\* happens; and whatever becomes of the notification, a confirm whose
\* append succeeded empties the cart, drops the draft and returns END.
C15_PersistBeforeNotifyAndClear ==
    [][\A u \in Users, c \in Chats :
          (Handled("confirm_or_cancel", u, c)' /\ last'.data = T_confirm) =>
              /\ \A b \in {"notify_admin", "notify_admin_failed", "clear_cart", "pop_order"} :
                    Precedes(last'.steps, "save_order", b)
              /\ "save_order" \notin Range(last'.steps) =>
                    /\ orders' = orders
                    /\ CartItems(Mem(u))' = CartItems(Mem(u))
              /\ "save_order" \in Range(last'.steps) =>
                    /\ Len(orders') = Len(orders) + 1
                    /\ CartItems(Mem(u))' = <<>>
                    /\ ~HasDraft(Mem(u))'
                    /\ last'.exc = "none" => conversations'[<<c, u>>] = END
              /\ \A adm \in {"unset", "failed"}, tr \in Transports :
                    WithSteps(confirm_order(Mem(u), u, TRUE, adm, tr), <<>>)
                        = WithSteps(confirm_order(Mem(u), u, TRUE, "ok", tr), <<>>)]_vars

\* a confirm saved the order, failed to notify the operator, emptied the
\* cart, dropped the draft and returned to IDLE
C15_Witness ==
    \E u \in Users, c \in Chats :
        /\ Handled("confirm_or_cancel", u, c)
        /\ last.data = T_confirm
        /\ last.steps = <<"save_order", "notify_admin_failed", "clear_cart", "pop_order">>
        /\ Len(orders) = 1
        /\ orders[1].cart # <<>>
        /\ CartItems(Mem(u)) = <<>>
        /\ ~HasDraft(Mem(u))
        /\ conversations[<<c, u>>] = END

\* the submission parses and its kind discriminator is 'order'
IsOrder(d) == d.json /\ "kind" \in DOMAIN d /\ d.kind = "order"

\* every item of the submission has the keys lines 533-543 read
WellFormed(d) ==
    "cart" \in DOMAIN d =>
        \A k \in 1..Len(d.cart) : {"id", "name", "price", "qty"} \subseteq DOMAIN d.cart[k]

\* C16: an embedded-shop submission changes no cart, no draft and no
\* dialogue state; with kind 'order' and a save that succeeds it appends
\* one order holding the submitted items, with any other kind it appends
\* none.
C16_SubmissionLeavesSessionAlone ==
    [][\A u \in Users, c \in Chats :
          Handled("handle_webapp_data", u, c)' =>
              /\ user_data' = user_data
              /\ heap' = heap
              /\ conversations' = conversations
              /\ ~IsOrder(last'.data) => orders' = orders
              /\ "save_order" \notin Range(last'.steps) => orders' = orders
              /\ (IsOrder(last'.data) /\ WellFormed(last'.data)
                  /\ "save_order_failed" \notin Range(last'.steps))
                    => "save_order" \in Range(last'.steps)
              /\ "save_order" \in Range(last'.steps) =>
                    /\ IsOrder(last'.data)
                    /\ Len(orders') = Len(orders) + 1
                    /\ SubSeq(orders', 1, Len(orders)) = orders
                    /\ LET o     == orders'[Len(orders')]
                           items == last'.data.cart
                       IN  /\ o.source = "webapp"
                           /\ o.user_id = u
                           /\ Len(o.cart) = Len(items)
                           /\ \A k \in 1..Len(items) :
                                 /\ o.cart[k].id = items[k].id
                                 /\ o.cart[k].name = items[k].name
                                 /\ o.cart[k].price = items[k].price
                                 /\ o.cart[k].qty = items[k].qty]_vars

\* an order was submitted from the embedded shop in the middle of a
\* checkout: the dialogue waits for the address, the cart has its item
C16_Witness ==
    \E u \in Users, c \in Chats :
        /\ Handled("handle_webapp_data", u, c)
        /\ IsOrder(last.data)
        /\ "save_order" \in Range(last.steps)
        /\ Len(orders) = 1
        /\ orders[1].source = "webapp"
        /\ orders[1].cart # <<>>
        /\ conversations[<<c, u>>] = ASK_ADDRESS
        /\ HasDraft(Mem(u))
        /\ CartItems(Mem(u)) # <<>>

\* C17: an update of one user leaves the cart, the draft and the dialogue
\* state of every other user as they were, and an order written by a
\* user's confirm holds the items of that user's cart and that user's id.
C17_SessionsIsolated ==
    [][\A u \in Users :
          /\ last'.u # u =>
                /\ user_data'[u] = user_data[u]
                /\ heap'[u] = heap[u]
                /\ \A c \in Chats : conversations'[<<c, u>>] = conversations[<<c, u>>]
          /\ (last'.u = u /\ last'.ev = "confirm_or_cancel" /\ Len(orders') > Len(orders)) =>
                /\ orders'[Len(orders')].cart = CartItems(Mem(u))
                /\ orders'[Len(orders')].user_id = u]_vars

\* one user confirmed an order while the other, with a cart and a draft of
\* their own, was in the middle of a checkout
C17_Witness ==
    \E u \in Users, v \in Users, c \in Chats :
        /\ u # v
        /\ Handled("confirm_or_cancel", u, c)
        /\ last.data = T_confirm
        /\ Len(orders) = 1
        /\ orders[1].cart # <<>>
        /\ CartItems(Mem(u)) = <<>>
        /\ CartItems(Mem(v)) # <<>>
        /\ HasDraft(Mem(v))
        /\ conversations[<<c, v>>] = ASK_PHONE

\* the handlers of button presses
CallbackHandlers ==
    {"on_callback", "add_to_cart_cb", "choose_variant_cb", "remove_from_cart_cb",
     "start_checkout_cb", "confirm_or_cancel"}

\* C18: a button press handled while the dialogue is in ASK_NAME,
\* ASK_ADDRESS or ASK_PHONE leaves the dialogue state and the draft (its
\* cart snapshot and captured fields) as they were.
C18_StrayButtonIgnored ==
    [][\A u \in Users, c \in Chats :
          (/\ last'.u = u /\ last'.c = c
           /\ last'.ev \in CallbackHandlers
           /\ conversations[<<c, u>>] \in {ASK_NAME, ASK_ADDRESS, ASK_PHONE}
           /\ HasDraft(Mem(u)))
              => /\ conversations'[<<c, u>>] = conversations[<<c, u>>]
                 /\ HasDraft(Mem(u))'
                 /\ Contact(Mem(u))' = Contact(Mem(u))
                 /\ DraftItems(Mem(u))' = DraftItems(Mem(u))]_vars

\* every item has quantity at least 1 and no two items share a key
CartWellFormed(items) ==
    /\ \A i \in 1..Len(items) : items[i].qty >= 1
    /\ \A i, j \in 1..Len(items) : items[i].key = items[j].key => i = j

\* C19: in every state every item of every cart has quantity at least 1
\* and no two items of a cart share a key; a remove takes the item of its
\* key out of the cart and leaves the other items and their quantities.
C19_QtyPositiveKeysUnique ==
    [][\A u \in Users :
          /\ CartWellFormed(CartItems(Mem(u)))
          /\ CartWellFormed(CartItems(Mem(u))')
          /\ (last'.ev = "remove_from_cart_cb" /\ last'.u = u) =>
                CartItems(Mem(u))' =
                    SelectSeq(CartItems(Mem(u)), LAMBDA it : it.key # SplitOnce(last'.data))]_vars

\* the mug was removed from a cart that keeps the T-shirt, while a draft
\* still lists the mug
C19_Witness ==
    \E u \in Users, c \in Chats :
        /\ Handled("remove_from_cart_cb", u, c)
        /\ SplitOnce(last.data) = item_key(<<"1">>, None)
        /\ KeysOf(CartItems(Mem(u))) = {item_key(<<"3">>, <<"M">>)}
        /\ HasDraft(Mem(u))
        /\ \E i \in 1..Len(DraftItems(Mem(u))) :
              DraftItems(Mem(u))[i].key = item_key(<<"1">>, None)

\* C20: the order a confirm appends has the items and the total of the
\* recap shown when the dialogue entered ASK_CONFIRM, whatever was added,
\* removed or cleared since.
C20_OrderEqualsRecap ==
    [][\A u \in DOMAIN recap, c \in Chats :
          (/\ Handled("confirm_or_cancel", u, c)'
           /\ last'.data = T_confirm
           /\ Len(orders') > Len(orders))
              => /\ orders'[Len(orders')].cart = recap[u]
                 /\ orders'[Len(orders')].total = SumItems(recap[u])]_vars

\* C21: every order the checkout dialogue writes holds at least one item.
C21_DialogueOrdersNonEmpty ==
    \A i \in 1..Len(orders) : orders[i].source = "bot" => orders[i].cart # <<>>

\* C22: a user has a draft exactly when a dialogue of that user is in
\* ASK_NAME, ASK_ADDRESS, ASK_PHONE or ASK_CONFIRM.
C22_DraftIffInDialogue ==
    \A u \in Users :
        HasDraft(Mem(u)) <=> \E c \in Chats : conversations[<<c, u>>] # END

\* C23: a text turn moves the dialogue one state forward, and an order the
\* dialogue writes carries a name, an address and a phone.
C23_StatesInOrderContactComplete ==
    [][\A u \in Users, c \in Chats :
          /\ (last'.u = u /\ last'.c = c /\ last'.ev \in {"ask_name", "ask_address", "ask_phone"})
                => conversations'[<<c, u>>] = conversations[<<c, u>>] + 1
          /\ (Handled("confirm_or_cancel", u, c)' /\ Len(orders') > Len(orders))
                => ContactKeys \subseteq DOMAIN orders'[Len(orders')]]_vars

\* C23, the orders alone: an order the dialogue writes carries a name, an
\* address and a phone.
C23_OrdersCarryContact ==
    \A i \in 1..Len(orders) : orders[i].source = "bot" => ContactKeys \subseteq DOMAIN orders[i]

\* C24: a pressed button reaches the handler of its kind, and the handler
\* reads out of the callback data the id (and variant), or the key, the
\* button was built with.
C24_TokensRoundTrip ==
    (button.kind # "none" /\ last.ev # "none") =>
        IF button.kind = "choose"
        THEN last.ev = "choose_variant_cb" /\ last.steps = <<button.id, button.variant>>
        ELSE IF button.kind = "add"
        THEN last.ev = "add_to_cart_cb" /\ last.steps = <<button.id>>
        ELSE IF button.kind = "prod"
        THEN last.ev = "on_callback" /\ last.steps = <<button.id>>
        ELSE last.ev = "remove_from_cart_cb"
             /\ last.steps = <<item_key(button.id, button.variant)>>

\* C24, the size buttons of ids made of letters, digits and "_": they do
\* reach choose_variant_cb, which then reads another id and size
C24_ChooseRoutedAndDecoded ==
    (button.kind = "choose" /\ last.ev = "choose_variant_cb") =>
        last.steps = <<button.id, button.variant>>

====
